---- MODULE Spec2Model ----
(***************************************************************************)
(* A model of frappe_microservice: the tenant-aware data-access wrapper    *)
(* (TenantAwareDB with its DocumentHooks) and the request-authentication   *)
(* pipeline of MicroserviceApp (setup_frappe_context, _validate_session,   *)
(* secure_route, cleanup_frappe_context).                                   *)
(*                                                                         *)
(* The ORM (frappe.get_all, frappe.get_doc, doc.insert, frappe.db) and    *)
(* the Central Site are the environment: the ORM is a table of rows keyed  *)
(* by document name, the Central Site an answer drawn per request.         *)
(* Every value a Python comparison may meet is a string, so that two of    *)
(* them can always be compared; Python's None is NoneVal.                  *)
(***************************************************************************)
EXTENDS Naturals, Sequences, FiniteSets, TLC

VARIABLES
    db,       \* the ORM's table: document name -> row, or Absent
    hooks,    \* DocumentHooks._hooks: doctype -> event -> list of handlers
    last,     \* the record of the TenantAwareDB call that ran last
    worker,   \* frappe.local of the worker: site initialised, session user and sid
    req,      \* the request being served, its Flask g and its position
    resp,     \* the response of the request served last
    served,   \* the users authenticated by the requests served so far
    resource, \* the routes register_resource added for a DocType
    controller, \* a DocumentController: its document and its own attributes
    threads   \* the threads of the server: each one's frappe.local, Flask g and request

vars == <<db, hooks, last, worker, req, resp, served, resource, controller, threads>>

appVars == <<worker, req, resp, served, resource, controller, threads>>

----------------------------------------------------------------------------
(* Bounds *)

\* documents the ORM table can hold
MaxDocs == 1
\* conditions in a list filter passed by a caller
MaxConds == 1
\* custom hooks registered
MaxHooks == 1
\* hooks an application registers in the hooks specification
MaxRegs == 2

----------------------------------------------------------------------------
(* Values *)

NoneVal == "<None>"

\* a guard that tests `is not None` where the code tests truthiness
IsNotNone(v) == v # NoneVal

\* Python truthiness of a tenant id, a sid or a username: None and '' are falsy
Truthy(v) == v # NoneVal /\ v # ""

Tenants == {"tenant_a", "tenant_b"}

\* what the tenant getter can return
TenantCtx == Tenants \cup {NoneVal, ""}

\* "Sales Order" carries tenant_id in its DocType metadata; "Customer" got the
\* column by ALTER TABLE, so doc.insert() does not save the field
DocTypes == {"Sales Order", "Customer"}

TenantInMeta(doctype) == doctype = "Sales Order"

AllNames == <<"DOC-1", "DOC-2", "DOC-3", "DOC-4">>

Names == {AllNames[i] : i \in 1..MaxDocs}

Absent == [doctype |-> NoneVal]

\* a row of the table: of the columns of a document, the table keeps the doctype
\* and tenant_id
Rows == [doctype : DocTypes, tenant_id : Tenants \cup {NoneVal}]

EmptyDict == [k \in {} |-> ""]

\* every dict with keys among `keys`, the value of key k drawn from vals[k]
Dicts(keys, vals) ==
    UNION {{d \in [ks -> UNION {vals[k] : k \in ks}] : \A k \in ks : d[k] \in vals[k]}
           : ks \in SUBSET keys}

HasKey(d, k) == k \in DOMAIN d

\* dict.update / {**a, **b}: the keys of b win
Update(a, b) == [k \in DOMAIN a \cup DOMAIN b |-> IF k \in DOMAIN b THEN b[k] ELSE a[k]]

\* del d[k]
Without(d, k) == [j \in DOMAIN d \ {k} |-> d[j]]

----------------------------------------------------------------------------
(* Filters: what a caller passes as `filters`, and what the ORM is handed *)

FNone == [kind |-> "None"]
FDict(d) == [kind |-> "dict", d |-> d]
FList(l) == [kind |-> "list", l |-> l]
FStr(s) == [kind |-> "str", s |-> s]

\* the conditions callers put in their filters: a document name, and a
\* tenant_id of their own choosing
FieldVals == [tenant_id |-> {"tenant_b"}, name |-> {AllNames[1]}]

DictFilters == {FDict(d) : d \in Dicts({"name", "tenant_id"}, FieldVals)}

Conds == {<<k, "=", v>> : <<k, v>> \in {<<"name", AllNames[1]>>, <<"tenant_id", "tenant_b">>}}

ListFilters == {FList(l) : l \in UNION {[1..n -> Conds] : n \in 0..MaxConds}}

StrFilters == {FStr(n) : n \in Names}

Filters == {FNone} \cup DictFilters \cup ListFilters \cup StrFilters

\* the value a row shows for a field; the name is the key of the table
Field(name, row, f) ==
    CASE f = "name" -> name
      [] f = "tenant_id" -> row.tenant_id
      [] OTHER -> NoneVal

\* the ORM's reading of a filter: a dict and a list are conjunctions, a plain
\* string is a document name
Matches(name, row, f) ==
    CASE f.kind = "None" -> TRUE
      [] f.kind = "dict" -> \A k \in DOMAIN f.d : Field(name, row, k) = f.d[k]
      [] f.kind = "list" -> \A i \in DOMAIN f.l : Field(name, row, f.l[i][1]) = f.l[i][3]
      [] f.kind = "str" -> name = f.s
      [] OTHER -> FALSE

\* frappe.get_all / frappe.db.count / exists / get_value: the documents of the
\* doctype the filter selects
OrmSelect(table, doctype, f) ==
    {n \in Names : table[n] # Absent /\ table[n].doctype = doctype /\ Matches(n, table[n], f)}

\* TenantAwareDB._add_tenant_filter, after the tenant guard
_add_tenant_filter(filters, tenant_id) ==
    CASE filters.kind = "None" -> FDict([tenant_id |-> tenant_id])
      [] filters.kind = "dict" -> FDict(Update(filters.d, [tenant_id |-> tenant_id]))
      [] filters.kind = "list" -> FList(Append(filters.l, <<"tenant_id", "=", tenant_id>>))
      [] OTHER -> filters

----------------------------------------------------------------------------
(* The record of a call *)

\* one step of a call: an ORM call, a custom hook invoked, or a setattr on a doc
Ev(kind, fn, doctype, filters, name, value) ==
    [kind |-> kind, fn |-> fn, doctype |-> doctype, filters |-> filters,
     name |-> name, value |-> value]

OrmEv(fn, doctype, filters, name, value) == Ev("orm", fn, doctype, filters, name, value)
HookEv(event, handler, doctype) == Ev("hook", event, doctype, FNone, handler, NoneVal)
SetEv(key, value) == Ev("setattr", "setattr", NoneVal, FNone, key, value)

NoDoc == [doctype |-> NoneVal]

\* op: the method called; tenant: what get_tenant_id() returns during the call;
\* raised: the exception that left the method, "" for a return; trace: its steps
\* in order; doc: the document returned; names: the documents a read returned
Call(op, args, tenant, raised, trace, doc, names) ==
    [op |-> op, args |-> args, tenant |-> tenant, raised |-> raised,
     trace |-> trace, doc |-> doc, names |-> names]

Idle == Call("", EmptyDict, NoneVal, "", <<>>, NoDoc, {})

OrmCalls(c) == {i \in DOMAIN c.trace : c.trace[i].kind = "orm"}
HookCalls(c) == {i \in DOMAIN c.trace : c.trace[i].kind = "hook"}

----------------------------------------------------------------------------
(* Objects: what a method does to the dict or list its caller passed in *)

\* the object the caller passed: its identity and its value
Arg(val) == [id |-> "arg", val |-> val]

\* an assignment that binds the name to the caller's object itself
same_object(obj) == obj

\* obj.copy(): a new object with the same value
shallow_copy(obj) == [id |-> "copy", val |-> obj.val]

\* obj[key] = value, obj.append(...), del obj[key], obj.update(...): the object
\* holds val afterwards
Write(obj, val) == [obj EXCEPT !.val = val]

\* the value of the caller's object once the method has written to obj
CallerSees(val, obj) == IF obj.id = "arg" THEN obj.val ELSE val

----------------------------------------------------------------------------
(* TenantAwareDB: the reads *)

\* the caller's filters after _add_tenant_filter(filters): dict and list filters
\* are copied, then the copy gets the tenant condition
filters_after(filters, tenant_id) ==
    IF ~Truthy(tenant_id) THEN filters
    ELSE IF filters.kind \in {"dict", "list"}
    THEN CallerSees(filters,
                    Write(shallow_copy(Arg(filters)), _add_tenant_filter(filters, tenant_id)))
    ELSE filters

\* the shared shape of get_all, count, exists and get_value: the tenant filter is
\* added, then the ORM function is called with it
TenantRead(op, ormFn, doctype, filters, t) ==
    LET args == [doctype |-> doctype, filters |-> filters] IN
    IF ~Truthy(t)
    THEN Call(op, args, t, "ValueError", <<>>, NoDoc, {})
         @@ [after |-> filters_after(filters, t)]
    ELSE LET f == _add_tenant_filter(filters, t) IN
         Call(op, args, t, "", <<OrmEv(ormFn, doctype, f, NoneVal, NoneVal)>>,
              NoDoc, OrmSelect(db, doctype, f))
         @@ [after |-> filters_after(filters, t)]

get_all(doctype, filters, t) ==
    /\ last = Idle
    /\ last' = TenantRead("get_all", "frappe.get_all", doctype, filters, t)
    /\ UNCHANGED <<db, hooks, appVars>>

\* get_list is an alias of get_all
get_list(doctype, filters, t) ==
    /\ last = Idle
    /\ last' = [TenantRead("get_all", "frappe.get_all", doctype, filters, t)
                    EXCEPT !.op = "get_list"]
    /\ UNCHANGED <<db, hooks, appVars>>

count(doctype, filters, t) ==
    /\ last = Idle
    /\ last' = TenantRead("count", "frappe.db.count", doctype, filters, t)
    /\ UNCHANGED <<db, hooks, appVars>>

exists(doctype, filters, t) ==
    /\ last = Idle
    /\ last' = TenantRead("exists", "frappe.db.exists", doctype, filters, t)
    /\ UNCHANGED <<db, hooks, appVars>>

get_value(doctype, filters, t) ==
    /\ last = Idle
    /\ last' = TenantRead("get_value", "frappe.db.get_value", doctype, filters, t)
    /\ UNCHANGED <<db, hooks, appVars>>

\* sql checks that a tenant is in context and passes the query through
sql(t) ==
    /\ last = Idle
    /\ last' = IF ~Truthy(t)
               THEN Call("sql", EmptyDict, t, "ValueError", <<>>, NoDoc, {})
               ELSE Call("sql", EmptyDict, t, "",
                         <<OrmEv("frappe.db.sql", NoneVal, FNone, NoneVal, NoneVal)>>,
                         NoDoc, {})
    /\ UNCHANGED <<db, hooks, appVars>>

----------------------------------------------------------------------------
(* DocumentHooks *)

Events == {"before_validate", "validate", "before_insert", "after_insert",
           "before_update", "after_update", "before_save", "after_save",
           "before_delete", "after_delete"}

\* the custom handlers of the model: one that only looks at the document, one
\* that moves it to another tenant, one that raises
Handlers == {"log_hook", "move_tenant", "fail_hook"}

\* hook(doc): the document after the handler, and the exception it raised
CallHook(handler, doc) ==
    CASE handler = "move_tenant" ->
            [doc |-> [doc EXCEPT !.tenant_id = "tenant_b"], raised |-> ""]
      [] handler = "fail_hook" -> [doc |-> doc, raised |-> "ValidationError"]
      [] OTHER -> [doc |-> doc, raised |-> ""]

\* DocumentHooks.register
register(h, doctype, event, handler) ==
    LET h1 == IF doctype \in DOMAIN h THEN h ELSE h @@ (doctype :> EmptyDict)
        h2 == IF event \in DOMAIN h1[doctype] THEN h1
              ELSE [h1 EXCEPT ![doctype] = @ @@ (event :> <<>>)]
    IN [h2 EXCEPT ![doctype][event] = Append(@, handler)]

\* a get_hooks that puts the hooks of the doctype before the global ones
get_hooks_doctype_first(h, doctype, event) ==
    LET of(dt) == IF dt \in DOMAIN h /\ event \in DOMAIN h[dt] THEN h[dt][event] ELSE <<>>
    IN of(doctype) \o of("*")

\* DocumentHooks.get_hooks: the global hooks, then those of the doctype
get_hooks(h, doctype, event) ==
    LET of(dt) == IF dt \in DOMAIN h /\ event \in DOMAIN h[dt] THEN h[dt][event] ELSE <<>>
    IN of("*") \o of(doctype)

RECURSIVE RunEachUntilError(_, _, _, _)
\* a loop that leaves at the first failing handler, raising only if asked to
RunEachUntilError(hs, doc, event, raise_on_error) ==
    IF hs = <<>> THEN [doc |-> doc, trace |-> <<>>, raised |-> ""]
    ELSE LET r == CallHook(Head(hs), doc)
             ev == HookEv(event, Head(hs), doc.doctype)
         IN IF r.raised # ""
            THEN [doc |-> r.doc, trace |-> <<ev>>,
                  raised |-> IF raise_on_error THEN r.raised ELSE ""]
            ELSE LET rest == RunEachUntilError(Tail(hs), r.doc, event, raise_on_error)
                 IN [doc |-> rest.doc, trace |-> <<ev>> \o rest.trace,
                     raised |-> rest.raised]

RECURSIVE RunEach(_, _, _, _)
\* the loop of run_hooks over the handlers hs
RunEach(hs, doc, event, raise_on_error) ==
    IF hs = <<>> THEN [doc |-> doc, trace |-> <<>>, raised |-> ""]
    ELSE LET r == CallHook(Head(hs), doc)
             ev == HookEv(event, Head(hs), doc.doctype)
         IN IF r.raised # "" /\ raise_on_error
            THEN [doc |-> r.doc, trace |-> <<ev>>, raised |-> r.raised]
            ELSE LET rest == RunEach(Tail(hs), r.doc, event, raise_on_error)
                 IN [doc |-> rest.doc, trace |-> <<ev>> \o rest.trace,
                     raised |-> rest.raised]

\* a run_hooks that logs the error of a hook and goes on whatever raise_on_error is
run_hooks_swallow(h, doc, event, raise_on_error) ==
    RunEach(get_hooks(h, doc.doctype, event), doc, event, FALSE)

\* DocumentHooks.run_hooks
run_hooks(h, doc, event, raise_on_error) ==
    RunEach(get_hooks(h, doc.doctype, event), doc, event, raise_on_error)

\* the number of handlers registered
HookCount(h) ==
    LET RECURSIVE Sum(_)
        Sum(S) == IF S = {} THEN 0
                  ELSE LET p == CHOOSE p \in S : TRUE
                       IN Len(h[p[1]][p[2]]) + Sum(S \ {p})
    IN Sum({<<dt, ev>> \in (DOMAIN h) \X Events : ev \in DOMAIN h[dt]})

----------------------------------------------------------------------------
(* Documents and the ORM's writes *)

\* frappe.get_doc(dict): a new, unsaved document with the fields of the dict
BuildDoc(d) ==
    [doctype |-> d["doctype"], name |-> NoneVal,
     tenant_id |-> IF HasKey(d, "tenant_id") THEN d["tenant_id"] ELSE NoneVal,
     status |-> IF HasKey(d, "status") THEN d["status"] ELSE NoneVal]

\* frappe.get_doc(doctype, name): the saved document, its columns loaded
LoadDoc(table, name) ==
    [doctype |-> table[name].doctype, name |-> name,
     tenant_id |-> table[name].tenant_id, status |-> NoneVal]

Saved(table, doctype, name) == table[name] # Absent /\ table[name].doctype = doctype

hasattr(doc, key) == key \in DOMAIN doc

\* the name doc.insert() gives the document: the first one free
FreeNames(table) == {i \in 1..MaxDocs : table[AllNames[i]] = Absent}

NextName(table) == AllNames[CHOOSE i \in FreeNames(table) : \A j \in FreeNames(table) : i <= j]

\* the row doc.insert() and doc.save() write: tenant_id is written only when it
\* is a field of the DocType metadata
RowOf(doc, old_tenant) ==
    [doctype |-> doc.doctype,
     tenant_id |-> IF TenantInMeta(doc.doctype) THEN doc.tenant_id ELSE old_tenant]

----------------------------------------------------------------------------
(* TenantAwareDB.get_doc *)

\* a tenant check that lets a document through when no tenant is in context
other_tenant_lenient(doc, tenant_id) == Truthy(tenant_id) /\ doc.tenant_id # tenant_id

\* get_doc's tenant check: doc.tenant_id != tenant_id
other_tenant(doc, tenant_id) == doc.tenant_id # tenant_id

\* the result of get_doc: the exception raised, the document and the steps
get_doc_result(table, doctype, name, verify_tenant, t) ==
    LET fetch == <<OrmEv("frappe.get_doc", doctype, FNone, name, NoneVal)>> IN
    IF ~Saved(table, doctype, name)
    THEN [raised |-> "DoesNotExistError", doc |-> NoDoc, trace |-> fetch, tenant |-> t]
    ELSE LET doc == LoadDoc(table, name) IN
         IF verify_tenant /\ hasattr(doc, "tenant_id")
         THEN IF other_tenant(doc, t)
              THEN [raised |-> "PermissionError", doc |-> NoDoc, trace |-> fetch, tenant |-> t]
              ELSE [raised |-> "", doc |-> doc, trace |-> fetch, tenant |-> t]
         ELSE [raised |-> "", doc |-> doc, trace |-> fetch, tenant |-> t]

get_doc(doctype, name, verify_tenant, t) ==
    /\ last = Idle
    /\ LET r == get_doc_result(db, doctype, name, verify_tenant, t) IN
       last' = Call("get_doc",
                    [doctype |-> doctype, name |-> name, verify_tenant |-> verify_tenant],
                    r.tenant, r.raised, r.trace, r.doc, {})
    /\ UNCHANGED <<db, hooks, appVars>>

----------------------------------------------------------------------------
(* TenantAwareDB.new_doc *)

new_doc(doctype, kwargs, t) ==
    /\ last = Idle
    /\ last' =
        LET args == [doctype |-> doctype, kwargs |-> kwargs] IN
        IF ~Truthy(t)
        THEN Call("new_doc", args, t, "ValueError", <<>>, NoDoc, {})
        ELSE LET doc_dict == Update([doctype |-> doctype, tenant_id |-> t], kwargs)
                 doc == BuildDoc(doc_dict)
                 built == <<OrmEv("frappe.get_doc", doctype, FNone, NoneVal, doc.tenant_id)>>
                 bv == run_hooks(hooks, doc, "before_validate", TRUE)
             IN Call("new_doc", args, t, bv.raised, built \o bv.trace,
                     IF bv.raised = "" THEN bv.doc ELSE NoDoc, {})
    /\ UNCHANGED <<db, hooks, appVars>>

----------------------------------------------------------------------------
(* TenantAwareDB.insert_doc *)

\* the keyword arguments that go to doc.insert() and not into the document
insert_param_names == {"ignore_permissions", "ignore_links", "ignore_if_duplicate",
                       "ignore_mandatory", "set_name", "set_child_names"}

NoData == [given |-> FALSE, d |-> EmptyDict]
Data(d) == [given |-> TRUE, d |-> d]

\* doc_fields taken from data alone, the keyword fields left out
doc_fields_of_data(data, kwargs) ==
    IF data.given /\ DOMAIN data.d # {} THEN data.d ELSE EmptyDict

\* doc_fields: a copy of data, updated with the keyword arguments that are not
\* insert() parameters
doc_fields_of(data, kwargs) ==
    LET copy == IF data.given /\ DOMAIN data.d # {} THEN data.d ELSE EmptyDict
        rest == [k \in DOMAIN kwargs \ insert_param_names |-> kwargs[k]]
    IN Update(copy, rest)

\* the caller's data after insert_doc: doc_fields = data.copy() if data else {},
\* then doc_fields.update(kwargs)
data_after_insert(data, kwargs, t) ==
    IF ~Truthy(t) THEN data
    ELSE IF data.given /\ DOMAIN data.d # {}
    THEN CallerSees(data,
                    Write(shallow_copy(Arg(data)), Data(doc_fields_of(data, kwargs))))
    ELSE data

\* a safety check that reads the saved tenant_id back and repairs nothing
verify_saved_tenant_readonly(table, doc, t) ==
    IF ~Truthy(doc.name) THEN [table |-> table, doc |-> doc, trace |-> <<>>]
    ELSE [table |-> table, doc |-> doc,
          trace |-> <<OrmEv("frappe.db.get_value", doc.doctype, FNone, doc.name,
                            table[doc.name].tenant_id)>>]

\* the safety check after doc.insert(): the saved tenant_id is read back and,
\* when it is not the expected one, set with set_value and the doc reloaded
verify_saved_tenant(table, doc, t) ==
    IF ~Truthy(doc.name) THEN [table |-> table, doc |-> doc, trace |-> <<>>]
    ELSE LET saved == table[doc.name].tenant_id
             read == <<OrmEv("frappe.db.get_value", doc.doctype, FNone, doc.name, saved)>>
         IN IF saved # t
            THEN LET fixed == [table EXCEPT ![doc.name].tenant_id = t]
                 IN [table |-> fixed, doc |-> [doc EXCEPT !.tenant_id = t],
                     trace |-> read
                        \o <<OrmEv("frappe.db.set_value", doc.doctype, FNone, doc.name, t),
                             OrmEv("doc.reload", doc.doctype, FNone, doc.name, NoneVal)>>]
            ELSE [table |-> table, doc |-> doc, trace |-> read]

\* insert_doc from the tenant override check on: the call's outcome and the table
insert_checked(table, h, doctype, doc_fields, run, t) ==
    LET doc_dict == Update([doctype |-> doctype, tenant_id |-> t], doc_fields)
        doc0 == [BuildDoc(doc_dict) EXCEPT !.tenant_id = t]
        built == <<OrmEv("frappe.get_doc", doctype, FNone, NoneVal, doc_dict["tenant_id"]),
                   SetEv("tenant_id", t)>>
        bv == IF run THEN run_hooks(h, doc0, "before_validate", TRUE)
              ELSE [doc |-> doc0, trace |-> <<>>, raised |-> ""]
        bi == IF run /\ bv.raised = "" THEN run_hooks(h, bv.doc, "before_insert", TRUE)
              ELSE [doc |-> bv.doc, trace |-> <<>>, raised |-> bv.raised]
        before == built \o bv.trace \o bi.trace
    IN IF bi.raised # ""
       THEN [raised |-> bi.raised, trace |-> before, doc |-> NoDoc, table |-> table]
       ELSE LET doc1 == [bi.doc EXCEPT !.name = NextName(table)]
                row == RowOf(doc1, NoneVal)
                t1 == [table EXCEPT ![doc1.name] = row]
                ins == <<OrmEv("doc.insert", doctype, FNone, doc1.name, row.tenant_id)>>
                chk == verify_saved_tenant(t1, doc1, t)
                ai == IF run THEN run_hooks(h, chk.doc, "after_insert", TRUE)
                      ELSE [doc |-> chk.doc, trace |-> <<>>, raised |-> ""]
            IN [raised |-> ai.raised,
                trace |-> before \o ins \o chk.trace \o ai.trace,
                doc |-> IF ai.raised = "" THEN ai.doc ELSE NoDoc,
                table |-> chk.table]

insert_doc_result(table, h, doctype, data, run, kwargs, t) ==
    LET doc_fields == doc_fields_of(data, kwargs) IN
    IF ~Truthy(t)
    THEN [raised |-> "ValueError", trace |-> <<>>, doc |-> NoDoc, table |-> table]
    ELSE IF HasKey(doc_fields, "tenant_id") /\ doc_fields["tenant_id"] # t
    THEN [raised |-> "PermissionError", trace |-> <<>>, doc |-> NoDoc, table |-> table]
    ELSE insert_checked(table, h, doctype, doc_fields, run, t)

insert_doc(doctype, data, run, kwargs, t) ==
    /\ last = Idle
    /\ FreeNames(db) # {}
    /\ LET r == insert_doc_result(db, hooks, doctype, data, run, kwargs, t) IN
        /\ last' = Call("insert_doc",
                        [doctype |-> doctype, data |-> data, run_hooks |-> run,
                         kwargs |-> kwargs],
                        t, r.raised, r.trace, r.doc, {})
                   @@ [after |-> data_after_insert(data, kwargs, t)]
        /\ db' = r.table
    /\ UNCHANGED <<hooks, appVars>>

----------------------------------------------------------------------------
(* TenantAwareDB.update_doc and delete_doc *)

RECURSIVE SetFields(_, _, _)
\* for key, value in data.items(): setattr(doc, key, value) when doc has the key
SetFields(doc, data, keys) ==
    IF keys = {} THEN [doc |-> doc, trace |-> <<>>]
    ELSE LET k == CHOOSE k \in keys : TRUE
             d1 == IF hasattr(doc, k) THEN [doc EXCEPT ![k] = data[k]] ELSE doc
             rest == SetFields(d1, data, keys \ {k})
         IN [doc |-> rest.doc,
             trace |-> (IF hasattr(doc, k) THEN <<SetEv(k, data[k])>> ELSE <<>>) \o rest.trace]

\* the caller's data after update_doc: once the document is fetched, a data with
\* a tenant_id key is copied and the key deleted from the copy
data_after_update(table, doctype, name, data, t) ==
    IF get_doc_result(table, doctype, name, TRUE, t).raised # "" THEN data
    ELSE IF HasKey(data, "tenant_id")
    THEN CallerSees(data, Write(shallow_copy(Arg(data)), Without(data, "tenant_id")))
    ELSE data

update_doc_result(table, h, doctype, name, data, run, t) ==
    LET got == get_doc_result(table, doctype, name, TRUE, t) IN
    IF got.raised # ""
    THEN [raised |-> got.raised, trace |-> got.trace, doc |-> NoDoc, table |-> table,
          tenant |-> got.tenant]
    ELSE LET d == IF HasKey(data, "tenant_id") THEN Without(data, "tenant_id") ELSE data
             bu == IF run THEN run_hooks(h, got.doc, "before_update", TRUE)
                   ELSE [doc |-> got.doc, trace |-> <<>>, raised |-> ""]
         IN IF bu.raised # ""
            THEN [raised |-> bu.raised, trace |-> got.trace \o bu.trace, doc |-> NoDoc,
                  table |-> table, tenant |-> got.tenant]
            ELSE LET set == SetFields(bu.doc, d, DOMAIN d)
                     row == RowOf(set.doc, table[name].tenant_id)
                     t1 == [table EXCEPT ![name] = row]
                     save == <<OrmEv("doc.save", doctype, FNone, name, row.tenant_id)>>
                     au == IF run THEN run_hooks(h, set.doc, "after_update", TRUE)
                           ELSE [doc |-> set.doc, trace |-> <<>>, raised |-> ""]
                 IN [raised |-> au.raised,
                     trace |-> got.trace \o bu.trace \o set.trace \o save \o au.trace,
                     doc |-> IF au.raised = "" THEN au.doc ELSE NoDoc,
                     table |-> t1, tenant |-> got.tenant]

update_doc(doctype, name, data, run, t) ==
    /\ last = Idle
    /\ LET r == update_doc_result(db, hooks, doctype, name, data, run, t) IN
        /\ last' = Call("update_doc",
                        [doctype |-> doctype, name |-> name, data |-> data, run_hooks |-> run],
                        r.tenant, r.raised, r.trace, r.doc, {})
                   @@ [after |-> data_after_update(db, doctype, name, data, t)]
        /\ db' = r.table
    /\ UNCHANGED <<hooks, appVars>>

\* frappe.delete_doc: the row goes; a missing document is ignored
OrmDelete(table, doctype, name) ==
    IF Saved(table, doctype, name) THEN [table EXCEPT ![name] = Absent] ELSE table

\* a delete_doc that fetches the document only to run hooks on it
delete_fetches_for_hooks(verify_tenant, run) == run

\* delete_doc fetches the document when verify_tenant or run_hooks
delete_fetches(verify_tenant, run) == verify_tenant \/ run

\* orm_ok: frappe.delete_doc goes through; otherwise it raises (a linked document)
delete_doc_result(table, h, doctype, name, verify_tenant, run, orm_ok, t) ==
    LET fetched == delete_fetches(verify_tenant, run)
        got == IF fetched THEN get_doc_result(table, doctype, name, verify_tenant, t)
               ELSE [raised |-> "", doc |-> NoDoc, trace |-> <<>>, tenant |-> t]
        bd == IF run /\ got.raised = "" THEN run_hooks(h, got.doc, "before_delete", TRUE)
              ELSE [doc |-> got.doc, trace |-> <<>>, raised |-> got.raised]
    IN IF bd.raised # ""
       THEN [raised |-> bd.raised, trace |-> got.trace \o bd.trace, table |-> table,
             tenant |-> got.tenant]
       ELSE IF ~orm_ok
       THEN [raised |-> "LinkExistsError",
             trace |-> got.trace \o bd.trace
                       \o <<OrmEv("frappe.delete_doc", doctype, FNone, name, NoneVal)>>,
             table |-> table, tenant |-> got.tenant]
       ELSE LET del == <<OrmEv("frappe.delete_doc", doctype, FNone, name, NoneVal)>>
                ad == IF run THEN run_hooks(h, bd.doc, "after_delete", TRUE)
                      ELSE [doc |-> bd.doc, trace |-> <<>>, raised |-> ""]
            IN [raised |-> ad.raised, trace |-> got.trace \o bd.trace \o del \o ad.trace,
                table |-> OrmDelete(table, doctype, name), tenant |-> got.tenant]

delete_doc(doctype, name, verify_tenant, run, orm_ok, t) ==
    /\ last = Idle
    /\ LET r == delete_doc_result(db, hooks, doctype, name, verify_tenant, run, orm_ok, t) IN
        /\ last' = Call("delete_doc",
                        [doctype |-> doctype, name |-> name, verify_tenant |-> verify_tenant,
                         run_hooks |-> run, orm_ok |-> orm_ok],
                        r.tenant, r.raised, r.trace, NoDoc, {})
        /\ db' = r.table
    /\ UNCHANGED <<hooks, appVars>>

\* TenantAwareDB.on(doctype, event)(handler): a hook is registered
RegisterUpTo(limit, doctype, event, handler) ==
    /\ last = Idle
    /\ HookCount(hooks) < limit
    /\ hooks' = register(hooks, doctype, event, handler)
    /\ UNCHANGED <<db, last, appVars>>

Register(doctype, event, handler) == RegisterUpTo(MaxHooks, doctype, event, handler)

\* hooks.get_hooks(doctype, event), called by the application
GetHooks(doctype, event) ==
    /\ last = Idle
    /\ last' = Call("get_hooks", [doctype |-> doctype, event |-> event], NoneVal, "", <<>>,
                    NoDoc, {})
               @@ [result |-> get_hooks(hooks, doctype, event)]
    /\ UNCHANGED <<db, hooks, appVars>>

\* hooks.run_hooks(doc, event, raise_on_error), called by the application on a
\* new document of the doctype
RunHooks(doctype, event, raise_on_error) ==
    /\ last = Idle
    /\ LET doc == BuildDoc([doctype |-> doctype])
           r == run_hooks(hooks, doc, event, raise_on_error)
       IN last' = Call("run_hooks",
                       [doctype |-> doctype, event |-> event,
                        raise_on_error |-> raise_on_error],
                       NoneVal, r.raised, r.trace, r.doc, {})
    /\ UNCHANGED <<db, hooks, appVars>>

\* the caller takes the result of the call; the next call can start
Return ==
    /\ last # Idle
    /\ last' = Idle
    /\ UNCHANGED <<db, hooks, appVars>>

----------------------------------------------------------------------------
(* MicroserviceApp: the session of the worker and the request context *)

\* a worker that has served no request: frappe.local has no site and no session
NoWorker == [site |-> FALSE, user |-> NoneVal, sid |-> NoneVal]
NoRequest == [pc |-> "idle"]
NoResponse == [status |-> "none"]

\* the User table of the site: the tenant of each user, and whether it is enabled
UserTable == [alice |-> [tenant_id |-> "tenant_a", enabled |-> TRUE],
              bob |-> [tenant_id |-> "tenant_b", enabled |-> TRUE],
              Administrator |-> [tenant_id |-> "SYSTEM", enabled |-> TRUE],
              operator |-> [tenant_id |-> "SYSTEM", enabled |-> TRUE]]

Users == DOMAIN UserTable

\* how the two queries of get_user_tenant_id end: both work, the SQL query fails
\* and the fallback works, both fail
SqlOutcomes == {"ok", "sql_fails", "both_fail"}

\* a safety check that lets every tenant through
keep_tenant(tenant_id) == tenant_id

\* if tenant_id == 'SYSTEM': return None
reject_system(tenant_id) == IF tenant_id = "SYSTEM" THEN NoneVal ELSE tenant_id

\* the user get_user_tenant_id looks up: user_email, and when that is empty
\* frappe.session.user ('Guest' when frappe has no session)
resolved_user(user_email, session_user) ==
    IF Truthy(user_email) THEN user_email
    ELSE IF session_user = "<no session>" THEN "Guest" ELSE session_user

\* get_user_tenant_id(user_email) with frappe.session.user = session_user: the
\* tenant returned and the queries made
resolve_user_tenant(user_email, session_user, query) ==
    LET user == resolved_user(user_email, session_user)
        by_sql == OrmEv("frappe.db.sql", "User", FNone, user, NoneVal)
        by_value == OrmEv("frappe.db.get_value", "User", FNone, user, NoneVal)
    IN IF ~Truthy(user) \/ user \in {"Guest", "Administrator"}
       THEN [tenant_id |-> NoneVal, trace |-> <<>>]
       ELSE IF query = "ok"
       THEN LET result == IF user \in Users /\ UserTable[user].enabled
                          THEN <<UserTable[user]>> ELSE <<>>
            IN [tenant_id |-> IF result # <<>> /\ Truthy(result[1].tenant_id)
                              THEN reject_system(result[1].tenant_id)
                              ELSE NoneVal,
                trace |-> <<by_sql>>]
       ELSE IF query = "sql_fails"
       THEN LET tenant_id == IF user \in Users THEN UserTable[user].tenant_id
                             ELSE NoneVal
            IN [tenant_id |-> reject_system(tenant_id), trace |-> <<by_sql, by_value>>]
       ELSE [tenant_id |-> NoneVal, trace |-> <<by_sql, by_value>>]

\* get_user_tenant_id(user_email)
get_user_tenant_id(user_email, session_user, query) ==
    resolve_user_tenant(user_email, session_user, query).tenant_id

\* the application asks for the tenant of a user
GetUserTenantId(user_email, session_user, query) ==
    /\ last = Idle
    /\ LET r == resolve_user_tenant(user_email, session_user, query) IN
       last' = Call("get_user_tenant_id",
                    [user_email |-> user_email, session_user |-> session_user,
                     query |-> query],
                    NoneVal, "", r.trace, NoDoc, {})
               @@ [result |-> r.tenant_id]
    /\ UNCHANGED <<db, hooks, appVars>>

\* MicroserviceApp._get_current_tenant_id with no custom getter: g.tenant_id
_get_current_tenant_id(g) == IF hasattr(g, "tenant_id") THEN g["tenant_id"] ELSE NoneVal

\* a response: the HTTP status, and the type and code fields of an error body
Response(status, type, code) == [status |-> status, type |-> type, code |-> code]

Ok200 == Response("200", "", "")
Unauthorized == Response("401", "Unauthorized", "401")

\* the sid cookie of a request: missing, empty, 'Guest', or a session id
Cookies == {NoneVal, "", "Guest", "sid-1"}

\* what the Central Site does with get_logged_user: a 200 with a message, another
\* status, no answer (network error, timeout), an answer that is no JSON object
Answers ==
    {[kind |-> "status", code |-> "200", message |-> m]
        : m \in Users \cup {"Guest", "", NoneVal}}
    \cup {[kind |-> "status", code |-> c, message |-> NoneVal] : c \in {"401", "500"}}
    \cup {[kind |-> k, code |-> "", message |-> NoneVal] : k \in {"network_error", "malformed"}}

\* a check of the Central Site's message that takes any non-empty username
is_logged_user_any(username) == Truthy(username)

\* username and username != 'Guest'
is_logged_user(username) == Truthy(username) /\ username # "Guest"

\* the session of a worker that has no valid user
ClearSession(w) == [w EXCEPT !.user = "Guest", !.sid = NoneVal]

\* MicroserviceApp._validate_session: the username, the error response, the
\* session it leaves, and whether the Central Site was called
_validate_session(w, sid, answer) ==
    IF ~Truthy(sid) \/ sid = "Guest"
    THEN [username |-> NoneVal, error |-> Unauthorized, worker |-> w, central |-> FALSE]
    ELSE IF /\ answer.kind = "status"
            /\ answer.code = "200"
            /\ is_logged_user(answer.message)
    THEN [username |-> answer.message, error |-> NoResponse,
          worker |-> [w EXCEPT !.user = answer.message, !.sid = sid], central |-> TRUE]
    ELSE [username |-> NoneVal, error |-> Unauthorized, worker |-> ClearSession(w),
          central |-> TRUE]

\* the error response secure_route makes of an exception raised by the handler
\* the message of an error body: a fixed prefix and a text
Message(prefix, text) == [prefix |-> prefix, text |-> text]

\* str(e) or default
TextOr(text, default) == IF text # "" THEN text ELSE default

\* jsonify({"status": "error", "message", "type", "code"}), code
ErrorBody(status, type, message) == Response(status, type, status) @@ [message |-> message]

\* the exceptions a handler raises (RuntimeError stands for any exception that
\* no except clause names), and the texts they carry
Exceptions ==
    {"PermissionError", "AuthenticationError", "DoesNotExistError", "LinkValidationError",
     "ValidationError", "ValueError", "TypeError", "KeyError", "RuntimeError"}

Texts == {"", "Test detail message"}

\* what the except clauses make of an exception raised by the handler: the
\* response, and the exception that leaves the wrapper. frappe.db.rollback() is
\* guarded by a try only in the last clause
ErrorResponse(exc, text, rollback_ok) ==
    IF exc \in {"PermissionError", "AuthenticationError", "DoesNotExistError",
                "LinkValidationError", "ValidationError", "ValueError", "TypeError",
                "KeyError"} /\ ~rollback_ok
    THEN [resp |-> NoResponse, escaped |-> "RollbackError"]
    ELSE [escaped |-> "",
          resp |->
            CASE exc \in {"PermissionError", "AuthenticationError"} ->
                    ErrorBody("403", "PermissionError",
                        Message("", TextOr(text,
                            "You do not have permission to access this resource.")))
              [] exc \in {"DoesNotExistError", "LinkValidationError"} ->
                    ErrorBody("404", "DoesNotExistError",
                        Message("", TextOr(text, "The requested resource was not found.")))
              [] exc \in {"ValidationError", "ValueError", "TypeError", "KeyError"} ->
                    ErrorBody("400", exc, Message("Invalid input data: ", text))
              [] OTHER ->
                    ErrorBody("500", exc, Message("", "An internal server error occurred."))]

\* an exception left the view function: Flask answers 500 with no JSON body
Unhandled == Response("500", "", "")

\* the routes of the application: a secure route or a plain Flask route, whose
\* handler answers with a dict or returns tenant_db.get_doc(doctype, name).as_dict()
Routes ==
    {[kind |-> k, handler |-> "hello", doctype |-> NoneVal, name |-> NoneVal]
        : k \in {"secure", "plain"}}
    \cup {[kind |-> "secure", handler |-> "get_doc", doctype |-> dt, name |-> n]
        : dt \in DocTypes, n \in Names}

\* secure routes whose handler raises an exception
RaiseRoutes ==
    {[kind |-> "secure", handler |-> "raise", exc |-> e, text |-> x]
        : e \in Exceptions, x \in Texts}

\* the handler's run: the TenantAwareDB call it makes and the exception it raises
RunHandler(route, table, g) ==
    IF route.handler = "get_doc"
    THEN LET t == _get_current_tenant_id(g)
             r == get_doc_result(table, route.doctype, route.name, TRUE, t)
         IN [raised |-> r.raised,
             text |-> IF r.raised = "PermissionError"
                      THEN "Access denied: Document belongs to different tenant"
                      ELSE IF r.raised = "" THEN "" ELSE "not found",
             call |-> Call("get_doc",
                           [doctype |-> route.doctype, name |-> route.name,
                            verify_tenant |-> TRUE],
                           t, r.raised, r.trace, r.doc, {})]
    ELSE IF route.handler = "raise"
    THEN [raised |-> route.exc, text |-> route.text, call |-> Idle]
    ELSE [raised |-> "", text |-> "", call |-> Idle]

\* a wrapper that lets a request through unless it was refused without asking
\* the Central Site
has_error_before_call(v) == v.error # NoResponse /\ ~v.central

\* if error_response: return error_response
has_error(v) == v.error # NoResponse

\* the wrapper of secure_route around the handler of `route`
secure_route(w, route, sid, answer, query, rollback_ok, table) ==
    LET v == _validate_session(w, sid, answer) IN
    IF has_error(v)
    THEN [worker |-> v.worker, g |-> EmptyDict, resp |-> v.error, validated |-> v.username,
          central |-> v.central, invoked |-> FALSE, ran_as |-> NoneVal, resolved |-> FALSE,
          call |-> Idle, raised |-> "", text |-> "", escaped |-> ""]
    ELSE LET w1 == IF v.worker.user # v.username THEN [v.worker EXCEPT !.user = v.username]
                   ELSE v.worker
             g1 == [current_user |-> v.username]
             tenant_id == get_user_tenant_id(v.username, w1.user, query)
             g2 == IF ~hasattr(g1, "tenant_id") \/ ~Truthy(g1["tenant_id"])
                   THEN IF Truthy(tenant_id) THEN g1 @@ ("tenant_id" :> tenant_id) ELSE g1
                   ELSE g1
             run == RunHandler(route, table, g2)
             err == ErrorResponse(run.raised, run.text, rollback_ok)
         IN [worker |-> w1, g |-> g2,
             resp |-> IF run.raised = "" THEN Ok200
                      ELSE IF err.escaped # "" THEN Unhandled ELSE err.resp,
             validated |-> v.username, central |-> v.central, invoked |-> TRUE,
             ran_as |-> w1.user, resolved |-> TRUE, call |-> run.call,
             raised |-> run.raised, text |-> run.text,
             escaped |-> IF run.raised = "" THEN "" ELSE err.escaped]

\* a plain Flask route: the handler runs with no validation
plain_route(w, route) ==
    [worker |-> w, g |-> EmptyDict, resp |-> Ok200, validated |-> NoneVal,
     central |-> FALSE, invoked |-> TRUE, ran_as |-> w.user, resolved |-> FALSE,
     call |-> Idle, raised |-> "", text |-> "", escaped |-> ""]

\* before_request, setup_frappe_context: frappe is initialised once per worker,
\* and only then is the session set to Guest
BeginRequest(route, sid) ==
    /\ req.pc = "idle"
    /\ worker' = IF ~worker.site THEN [site |-> TRUE, user |-> "Guest", sid |-> NoneVal]
                 ELSE worker
    /\ req' = [pc |-> "view", route |-> route, sid |-> sid]
    /\ resp' = NoResponse
    /\ last' = Idle
    /\ UNCHANGED <<db, hooks, served, resource, controller, threads>>

\* the view function runs: the secure_route wrapper, or the handler of a plain route
Dispatch(answer, query, rollback_ok) ==
    /\ req.pc = "view"
    /\ LET r == IF req.route.kind = "secure"
                THEN secure_route(worker, req.route, req.sid, answer, query, rollback_ok, db)
                ELSE plain_route(worker, req.route)
       IN /\ worker' = r.worker
          /\ resp' = r.resp
          /\ last' = r.call
          /\ req' = [pc |-> "done", route |-> req.route, sid |-> req.sid,
                     answer |-> answer, g |-> r.g, validated |-> r.validated,
                     central |-> r.central, invoked |-> r.invoked, ran_as |-> r.ran_as,
                     resolved |-> r.resolved, raised |-> r.raised, text |-> r.text,
                     escaped |-> r.escaped]
    /\ UNCHANGED <<db, hooks, served, resource, controller, threads>>

\* after_request, cleanup_frappe_context: the transaction is committed and the
\* session is left as it is
EndRequest ==
    /\ req.pc = "done"
    /\ req' = NoRequest
    /\ served' = IF req.validated # NoneVal THEN served \cup {req.validated} ELSE served
    /\ UNCHANGED <<db, hooks, last, worker, resp, resource, controller, threads>>

----------------------------------------------------------------------------
(* MicroserviceApp: requests served at the same time by several threads *)

\* the threads of the server; frappe.local and Flask's g are context-local, so
\* each thread has its own
Threads == {"t1", "t2"}

\* a request context that goes on with the g of the thread's last request
keep_app_context(g) == g

\* Flask pushes a new application context for a request: g starts empty
push_app_context(g) == EmptyDict

\* a thread that has served no request
NoThread == [local |-> NoWorker, g |-> EmptyDict, req |-> NoRequest]

\* before_request, setup_frappe_context, in thread t
ThreadBegin(t, sid) ==
    /\ threads[t].req.pc = "idle"
    /\ threads' = [threads EXCEPT
            ![t].local = IF ~@.site THEN [site |-> TRUE, user |-> "Guest", sid |-> NoneVal]
                         ELSE @,
            ![t].g = push_app_context(@),
            ![t].req = [pc |-> "validate", sid |-> sid]]
    /\ UNCHANGED <<db, hooks, last, worker, req, resp, served, resource, controller>>

\* the wrapper calls _validate_session: the Central Site answers, and the
\* wrapper returns the error response or goes on with the username
ThreadValidate(t, answer) ==
    /\ threads[t].req.pc = "validate"
    /\ LET v == _validate_session(threads[t].local, threads[t].req.sid, answer) IN
       threads' = [threads EXCEPT
            ![t].local = v.worker,
            ![t].req = IF has_error(v)
                       THEN [pc |-> "done", sid |-> @.sid, username |-> NoneVal,
                             invoked |-> FALSE]
                       ELSE [pc |-> "set_user", sid |-> @.sid, username |-> v.username]]
    /\ UNCHANGED <<db, hooks, last, worker, req, resp, served, resource, controller>>

\* if frappe.session.user != username: frappe.set_user(username); then
\* g.current_user = username
ThreadSetUser(t) ==
    /\ threads[t].req.pc = "set_user"
    /\ threads' = [threads EXCEPT
            ![t].local = IF @.user # threads[t].req.username
                         THEN [@ EXCEPT !.user = threads[t].req.username] ELSE @,
            ![t].g = @ @@ ("current_user" :> threads[t].req.username),
            ![t].req = [@ EXCEPT !.pc = "resolve"]]
    /\ UNCHANGED <<db, hooks, last, worker, req, resp, served, resource, controller>>

\* if g has no tenant_id: tenant_id = get_user_tenant_id(username), kept in g
\* when it is not empty
ThreadResolve(t, query) ==
    /\ threads[t].req.pc = "resolve"
    /\ LET g == threads[t].g
           tenant_id == get_user_tenant_id(threads[t].req.username,
                                           threads[t].local.user, query)
       IN threads' = [threads EXCEPT
            ![t].g = IF ~hasattr(g, "tenant_id") \/ ~Truthy(g["tenant_id"])
                     THEN IF Truthy(tenant_id)
                          THEN ("tenant_id" :> tenant_id) @@ g
                          ELSE g
                     ELSE g,
            ![t].req = [@ EXCEPT !.pc = "handler"] @@ [query |-> query]]
    /\ UNCHANGED <<db, hooks, last, worker, req, resp, served, resource, controller>>

\* f(username): the handler runs; it reads frappe.session.user and calls
\* tenant_db, which asks _get_current_tenant_id for the tenant
ThreadHandler(t) ==
    /\ threads[t].req.pc = "handler"
    /\ threads' = [threads EXCEPT
            ![t].req = [pc |-> "done", sid |-> @.sid, username |-> @.username,
                        invoked |-> TRUE, query |-> @.query,
                        ran_as |-> threads[t].local.user,
                        tenant |-> _get_current_tenant_id(threads[t].g)]]
    /\ UNCHANGED <<db, hooks, last, worker, req, resp, served, resource, controller>>

\* after_request, cleanup_frappe_context: the session of the thread stays
ThreadEnd(t) ==
    /\ threads[t].req.pc = "done"
    /\ threads' = [threads EXCEPT ![t].req = NoRequest]
    /\ UNCHANGED <<db, hooks, last, worker, req, resp, served, resource, controller>>

----------------------------------------------------------------------------
(* MicroserviceApp.register_resource *)

\* no resource registered: the url map has no rule
NoResource == [registered |-> FALSE]

HttpMethods == {"GET", "POST", "PUT", "DELETE"}

\* the built-in handler register_resource makes for each route, and the key of
\* custom_handlers it looks up for it
ResourceRoutes ==
    {[method |-> "GET", path |-> "collection", key |-> "list", builtin |-> "list_handler"],
     [method |-> "GET", path |-> "item", key |-> "get", builtin |-> "get_handler"],
     [method |-> "POST", path |-> "collection", key |-> "post", builtin |-> "create_handler"],
     [method |-> "PUT", path |-> "item", key |-> "put", builtin |-> "update_handler"],
     [method |-> "DELETE", path |-> "item", key |-> "delete", builtin |-> "delete_handler"]}

\* the methods argument: None, or a list of method names
NoList == [given |-> FALSE, items |-> {}]
List(items) == [given |-> TRUE, items |-> items]

\* the rules register_resource adds: <<method, path>> -> handler;
\* methods is None or a list of method names, custom_handlers None or a dict
register_resource(methods, custom_handlers) ==
    LET ms == IF ~methods.given \/ methods.items = {} THEN HttpMethods ELSE methods.items
        ch == IF ~custom_handlers.given THEN EmptyDict ELSE custom_handlers.d
        on == {r \in ResourceRoutes : r.method \in ms}
        rule(k) == CHOOSE r \in on : <<r.method, r.path>> = k
    IN [k \in {<<r.method, r.path>> : r \in on} |->
            IF HasKey(ch, rule(k).key) THEN ch[rule(k).key] ELSE rule(k).builtin]

\* app.register_resource(doctype, methods=..., custom_handlers=...), once per DocType
RegisterResource(methods, custom_handlers) ==
    /\ ~resource.registered
    /\ last = Idle
    /\ resource' = [registered |-> TRUE, methods |-> methods,
                    custom_handlers |-> custom_handlers,
                    url_map |-> register_resource(methods, custom_handlers)]
    /\ UNCHANGED <<db, hooks, last, worker, req, resp, served, controller, threads>>

\* a request on the resource: Flask picks the handler of the rule that matches
ResourceRequest(method, path) ==
    /\ resource.registered
    /\ last = Idle
    /\ last' = Call("resource_request", [method |-> method, path |-> path], NoneVal, "",
                    <<>>, NoDoc, {})
               @@ [handler |-> IF <<method, path>> \in DOMAIN resource.url_map
                               THEN resource.url_map[<<method, path>>] ELSE NoneVal]
    /\ UNCHANGED <<db, hooks, worker, req, resp, served, resource, controller, threads>>

----------------------------------------------------------------------------
(* DocumentController: attribute access on a controller and on its document *)

\* an attribute that was never assigned
Unset == "<unset>"

\* what reading a missing attribute gives
AttributeError == "<AttributeError>"

\* the attribute names a hook method uses
AttrNames == {"customer", "flags", "doc", "validate", "_cache"}

\* key.startswith('_')
PrivateNames == {"_cache", "_controller_name"}

\* the names the class DocumentController defines itself: its lifecycle methods
ClassAttrs == {"validate"}

\* the attributes of a document as the ORM hands it to a hook
FreshDoc(id) ==
    [a \in AttrNames |-> CASE a = "customer" -> "CUST-001"
                           [] a = "flags" -> "<flags>"
                           [] OTHER -> Unset]

\* getattr(doc, key)
DocRead(doc, key) == IF doc[key] = Unset THEN AttributeError ELSE doc[key]

\* DocumentController(doc): __init__ sets self.doc and self._controller_name
DocumentController(id) ==
    [doc_id |-> id,
     doc    |-> FreshDoc(id),
     own    |-> [a \in AttrNames \cup {"_controller_name"} |->
                    CASE a = "doc" -> id
                      [] a = "_controller_name" -> "SalesOrder"
                      [] OTHER -> Unset]]

\* object.__setattr__(self, key, value); a new self.doc is another document
own_setattr(c, key, value) ==
    IF key = "doc"
    THEN [c EXCEPT !.doc_id = value, !.doc = FreshDoc(value), !.own[key] = value]
    ELSE [c EXCEPT !.own[key] = value]

\* setattr(self.doc, key, value)
doc_setattr(c, key, value) == [c EXCEPT !.doc[key] = value]

\* a __setattr__ that keeps every assignment on the controller
controller_setattr_own_only(c, key, value) == own_setattr(c, key, value)

\* DocumentController.__setattr__: controller.key = value
controller_setattr(c, key, value) ==
    IF key \in {"doc", "_controller_name"} \/ key \in PrivateNames
    THEN own_setattr(c, key, value)
    ELSE own_setattr(doc_setattr(c, key, value), key, value)

\* DocumentController.__getattr__, called when normal lookup finds nothing
doc_getattr(c, key) ==
    IF key \in PrivateNames \/ key \in {"doc", "flags"}
    THEN AttributeError
    ELSE DocRead(c.doc, key)

\* controller.key: the instance's own attributes, then the class, then __getattr__
controller_getattr(c, key) ==
    IF c.own[key] # Unset THEN c.own[key]
    ELSE IF key \in ClassAttrs THEN "<bound method>"
    ELSE doc_getattr(c, key)

\* DocumentController.get(key): getattr(self.doc, key, None)
controller_get(c, key) == IF c.doc[key] = Unset THEN NoneVal ELSE c.doc[key]

\* DocumentController.set(key, value): setattr(self.doc, ...), then setattr(self, ...)
controller_set(c, key, value) == controller_setattr(doc_setattr(c, key, value), key, value)

\* the values a hook method may assign to key
Assignable(c, key) ==
    IF key = "doc" THEN (IF c.doc_id = "doc_0" THEN {"doc_1"} ELSE {}) ELSE {"CUST-002"}

\* the statement controller.key = value in a hook method; before is the document
\* the controller had when the statement started
SetAttr(key, value) ==
    /\ value \in Assignable(controller, key)
    /\ controller' = controller_setattr(controller, key, value)
    /\ last' = Call("setattr", [key |-> key, value |-> value], NoneVal, "", <<>>, NoDoc, {})
               @@ [before |-> IF key = "doc" THEN controller.doc
                              ELSE controller'.doc]
    /\ UNCHANGED <<db, hooks, worker, req, resp, served, resource, threads>>

\* the expression controller.key in a hook method
GetAttr(key) ==
    /\ last' = Call("getattr", [key |-> key], NoneVal, "", <<>>, NoDoc, {})
               @@ [result |-> controller_getattr(controller, key),
                   never_set |-> controller.own[key] = Unset]
    /\ UNCHANGED <<db, hooks, worker, req, resp, served, resource, controller, threads>>

\* controller.set(key, value)
ControllerSet(key, value) ==
    /\ value \in Assignable(controller, key)
    /\ controller' = controller_set(controller, key, value)
    /\ last' = Call("set", [key |-> key, value |-> value], NoneVal, "", <<>>, NoDoc, {})
    /\ UNCHANGED <<db, hooks, worker, req, resp, served, resource, threads>>

\* controller.get(key)
ControllerGet(key) ==
    /\ last' = Call("get", [key |-> key], NoneVal, "", <<>>, NoDoc, {})
               @@ [result |-> controller_get(controller, key)]
    /\ UNCHANGED <<db, hooks, worker, req, resp, served, resource, controller, threads>>

\* other code assigns a field of the document itself, as update_doc does
DocAssign(key, value) ==
    /\ controller' = doc_setattr(controller, key, value)
    /\ last' = Call("doc_assign", [key |-> key, value |-> value], NoneVal, "", <<>>,
                    NoDoc, {})
    /\ UNCHANGED <<db, hooks, worker, req, resp, served, resource, threads>>

----------------------------------------------------------------------------
(* The data-access specification: any sequence of TenantAwareDB calls *)

DataVals == [tenant_id |-> Tenants, status |-> {"Active"}, ignore_permissions |-> {"True"}]

DataDicts == Dicts({"tenant_id", "status"}, DataVals)

InsertData == {NoData} \cup {Data(d) : d \in Dicts({"tenant_id"}, DataVals)}

\* the hooks an application registers
HookChoices == {<<"*", "before_validate", "move_tenant">>,
                <<"Sales Order", "before_insert", "move_tenant">>,
                <<"*", "before_insert", "fail_hook">>,
                <<"*", "before_update", "log_hook">>,
                <<"*", "before_delete", "log_hook">>}

UpdateData == Dicts({"tenant_id", "status"}, [DataVals EXCEPT !.tenant_id = {"tenant_b"}])

Kwargs == {d \in Dicts({"tenant_id", "ignore_permissions"}, DataVals) : Cardinality(DOMAIN d) <= 1}

Init ==
    /\ db = [n \in Names |-> Absent]
    /\ hooks = EmptyDict
    /\ last = Idle
    /\ worker = NoWorker
    /\ req = NoRequest
    /\ resp = NoResponse
    /\ served = {}
    /\ resource = NoResource
    /\ controller = DocumentController("doc_0")
    /\ threads = [t \in Threads |-> NoThread]

Next ==
    \/ \E dt \in DocTypes, f \in Filters, t \in TenantCtx : get_all(dt, f, t)
    \/ \E dt \in DocTypes, f \in Filters, t \in TenantCtx : get_list(dt, f, t)
    \/ \E dt \in DocTypes, f \in Filters, t \in TenantCtx : count(dt, f, t)
    \/ \E dt \in DocTypes, f \in Filters, t \in TenantCtx : exists(dt, f, t)
    \/ \E dt \in DocTypes, f \in Filters, t \in TenantCtx : get_value(dt, f, t)
    \/ \E t \in TenantCtx : sql(t)
    \/ \E dt \in DocTypes, n \in Names, v \in BOOLEAN, t \in TenantCtx : get_doc(dt, n, v, t)
    \/ \E dt \in DocTypes, kw \in DataDicts, t \in TenantCtx : new_doc(dt, kw, t)
    \/ \E dt \in DocTypes, d \in InsertData, run \in BOOLEAN, kw \in Kwargs, t \in TenantCtx :
            insert_doc(dt, d, run, kw, t)
    \/ \E dt \in DocTypes, n \in Names, d \in UpdateData, run \in BOOLEAN, t \in TenantCtx :
            update_doc(dt, n, d, run, t)
    \/ \E dt \in DocTypes, n \in Names, v \in BOOLEAN, run \in BOOLEAN, ok \in BOOLEAN,
            t \in TenantCtx :
            delete_doc(dt, n, v, run, ok, t)
    \/ \E c \in HookChoices : Register(c[1], c[2], c[3])
    \/ Return

Spec == Init /\ [][Next]_vars

----------------------------------------------------------------------------
(* The hooks specification: an application registers hooks and writes documents *)

\* the hooks the application registers, in any order and any number of times
HookMenu ==
    {<<"*", "validate", "log_hook">>,
     <<"*", "before_validate", "log_hook">>,
     <<"*", "after_update", "log_hook">>,
     <<"*", "before_insert", "log_hook">>,
     <<"Sales Order", "after_insert", "log_hook">>,
     <<"*", "before_update", "log_hook">>,
     <<"*", "before_delete", "fail_hook">>,
     <<"*", "before_delete", "log_hook">>,
     <<"Sales Order", "before_delete", "move_tenant">>,
     <<"*", "after_delete", "log_hook">>}

\* the tenant of the application's user
HookTenant == "tenant_a"

\* the site holds at most one document when the application starts
HookTables ==
    {[n \in Names |-> IF n = AllNames[1] THEN r ELSE Absent]
        : r \in {Absent} \cup {x \in Rows : x.tenant_id \in Tenants}}

InitHooks ==
    /\ db \in HookTables
    /\ hooks = EmptyDict
    /\ last = Idle
    /\ worker = NoWorker
    /\ req = NoRequest
    /\ resp = NoResponse
    /\ served = {}
    /\ resource = NoResource
    /\ controller = DocumentController("doc_0")
    /\ threads = [t \in Threads |-> NoThread]

NextHooks ==
    \/ \E c \in HookMenu : RegisterUpTo(MaxRegs, c[1], c[2], c[3])
    \/ \E dt \in DocTypes, e \in Events : GetHooks(dt, e)
    \/ \E dt \in DocTypes, e \in Events, raise_on_error \in BOOLEAN :
            RunHooks(dt, e, raise_on_error)
    \/ \E dt \in DocTypes, run \in BOOLEAN : insert_doc(dt, NoData, run, EmptyDict, HookTenant)
    \/ \E dt \in DocTypes, n \in Names, d \in UpdateData, run \in BOOLEAN :
            update_doc(dt, n, d, run, HookTenant)
    \/ \E dt \in DocTypes, n \in Names, v \in BOOLEAN, run \in BOOLEAN, ok \in BOOLEAN :
            delete_doc(dt, n, v, run, ok, HookTenant)
    \/ Return

SpecHooks == InitHooks /\ [][NextHooks]_vars

----------------------------------------------------------------------------
(* The resource specification: one resource is registered, then requested *)

\* the methods argument: None, or a list of methods
MethodChoices ==
    {NoList} \cup {List(ms) : ms \in {{"GET"}, {"POST"}, {"GET", "POST"}, {"PUT", "DELETE"}}}

\* the custom_handlers argument: None, or a dict whose keys are method names as
\* the docstring writes them, or the lower-case keys
CustomHandlers ==
    {NoData} \cup {Data([k \in ks |-> "my_custom_handler"])
                        : ks \in SUBSET {"POST", "post", "GET", "get", "list", "DELETE"}}

NextResource ==
    \/ \E ms \in MethodChoices, ch \in CustomHandlers : RegisterResource(ms, ch)
    \/ \E m \in HttpMethods, p \in {"collection", "item"} : ResourceRequest(m, p)
    \/ Return

SpecResource == Init /\ [][NextResource]_vars

----------------------------------------------------------------------------
(* The tenant-resolution specification: get_user_tenant_id on any user *)

\* the user_email argument, None and '' among them, and a user the site has not
UserArgs == Users \cup {NoneVal, "", "Guest", "nobody"}

\* frappe.session.user during the call
SessionUsers == Users \cup {"<no session>", "", "Guest"}

NextTenant ==
    \/ \E u \in UserArgs, su \in SessionUsers, q \in SqlOutcomes : GetUserTenantId(u, su, q)
    \/ Return

SpecTenant == Init /\ [][NextTenant]_vars

----------------------------------------------------------------------------
(* The controller specification: a hook method working on its controller *)

NextController ==
    \/ \E k \in AttrNames, v \in {"CUST-002", "doc_1"} : SetAttr(k, v)
    \/ \E k \in AttrNames : GetAttr(k)
    \/ \E k \in AttrNames, v \in {"CUST-002", "doc_1"} : ControllerSet(k, v)
    \/ \E k \in AttrNames : ControllerGet(k)
    \/ DocAssign("customer", "CUST-003")

SpecController == Init /\ [][NextController]_vars

----------------------------------------------------------------------------
(* The request specification: a worker serves requests one after the other *)

\* the documents the site holds when the service starts
Tables == [Names -> {Absent} \cup Rows]

InitApp ==
    /\ db \in Tables
    /\ hooks = EmptyDict
    /\ last = Idle
    /\ worker = NoWorker
    /\ req = NoRequest
    /\ resp = NoResponse
    /\ served = {}
    /\ resource = NoResource
    /\ controller = DocumentController("doc_0")
    /\ threads = [t \in Threads |-> NoThread]

NextApp ==
    \/ \E r \in Routes, sid \in Cookies : BeginRequest(r, sid)
    \/ \E a \in Answers, query \in SqlOutcomes : Dispatch(a, query, TRUE)
    \/ EndRequest

SpecApp == InitApp /\ [][NextApp]_vars

\* requests of several users served at the same time, one thread each
NextThreads ==
    \/ \E t \in Threads, sid \in Cookies : ThreadBegin(t, sid)
    \/ \E t \in Threads, a \in Answers : ThreadValidate(t, a)
    \/ \E t \in Threads : ThreadSetUser(t)
    \/ \E t \in Threads, query \in SqlOutcomes : ThreadResolve(t, query)
    \/ \E t \in Threads : ThreadHandler(t)
    \/ \E t \in Threads : ThreadEnd(t)

SpecThreads == Init /\ [][NextThreads]_vars

\* the same requests with a database connection that may be lost while the
\* except clauses of the wrapper run: frappe.db.rollback() raises
NextErr ==
    \/ \E r \in Routes \cup RaiseRoutes, sid \in Cookies : BeginRequest(r, sid)
    \/ \E a \in Answers, query \in SqlOutcomes, rollback_ok \in BOOLEAN :
            Dispatch(a, query, rollback_ok)
    \/ EndRequest

SpecErr == InitApp /\ [][NextErr]_vars

----------------------------------------------------------------------------
(* Claims about TenantAwareDB *)

ReadOps == {"get_all", "get_list", "count", "exists", "get_value"}

NoTenant == {NoneVal, ""}

\* a filter restricts tenant_id to t: no row of another tenant matches it
Restricts(f, t) == \A n \in Names, row \in Rows : Matches(n, row, f) => row.tenant_id = t

\* C1: every read made through get_all, get_list, count, exists and get_value
\* hands the ORM a filter that restricts tenant_id to the current tenant,
\* whatever filters the caller passed (None, a dict, a list, a document-name
\* string), so the documents it returns are the current tenant's
C1_ReadsRestrictTenant ==
    (last.op \in ReadOps /\ last.raised = "") =>
        /\ \A i \in OrmCalls(last) : Restricts(last.trace[i].filters, last.tenant)
        /\ \A n \in last.names : db[n].tenant_id = last.tenant

\* the call that is starting is op on a saved document of another tenant than
\* the one in context
OnForeignDoc(op) ==
    /\ last = Idle
    /\ last'.op = op
    /\ Saved(db, last'.args.doctype, last'.args.name)
    /\ db[last'.args.name].tenant_id # last'.tenant

\* C3: update_doc, and delete_doc with verify_tenant=True, on a document of
\* another tenant raise PermissionError with nothing done but the fetch: no
\* custom hook has run, no field is set, doc.save and the ORM delete are not
\* called, and the table is unchanged
C3_NoWriteOnForeignDoc ==
    [][(\/ OnForeignDoc("update_doc")
        \/ OnForeignDoc("delete_doc") /\ last'.args.verify_tenant)
       => /\ last'.raised = "PermissionError"
          /\ \A i \in DOMAIN last'.trace : last'.trace[i].fn = "frappe.get_doc"
          /\ db' = db]_vars

\* an update of a foreign document was refused while a before_update hook was
\* registered and hooks were asked for
C3_Witness ==
    /\ last.op = "update_doc"
    /\ last.raised = "PermissionError"
    /\ last.args.run_hooks
    /\ get_hooks(hooks, last.args.doctype, "before_update") # <<>>

\* the tenant_id the caller asks for: the keyword field, else the one in data
Requested(args) ==
    IF HasKey(args.kwargs, "tenant_id") THEN args.kwargs["tenant_id"]
    ELSE IF args.data.given /\ HasKey(args.data.d, "tenant_id") THEN args.data.d["tenant_id"]
    ELSE "unset"

\* C4: insert_doc with a tenant in context, whose merged fields (data plus
\* keyword fields) carry a tenant_id of another tenant, raises PermissionError:
\* no document is built, no custom hook runs, nothing is inserted
C4_InsertRejectsOverride ==
    [][(/\ last = Idle
        /\ last'.op = "insert_doc"
        /\ last'.tenant \in Tenants
        /\ Requested(last'.args) \notin {"unset", last'.tenant})
       => /\ last'.raised = "PermissionError"
          /\ last'.trace = <<>>
          /\ db' = db]_vars

\* an override passed as a keyword field, over data that names the caller's own
\* tenant, was refused with hooks registered
C4_Witness ==
    /\ last.op = "insert_doc"
    /\ last.raised = "PermissionError"
    /\ HasKey(last.args.kwargs, "tenant_id")
    /\ last.args.data.given /\ HasKey(last.args.data.d, "tenant_id")
    /\ last.args.data.d["tenant_id"] = last.tenant
    /\ last.args.run_hooks /\ HookCount(hooks) > 0

InsertReturned == last.op = "insert_doc" /\ last.raised = "" /\ last.doc.name \notin NoTenant

\* C5: whenever insert_doc returns a document that has a name, the tenant_id
\* saved for that document is the tenant that was current when insert_doc was
\* called
C5_InsertedTenantIsCurrent ==
    InsertReturned => db[last.doc.name].tenant_id = last.tenant

\* insert_doc returned after the safety check had to repair the saved tenant_id
C5_Witness ==
    /\ InsertReturned
    /\ \E i \in OrmCalls(last) : last.trace[i].fn = "frappe.db.set_value"
    /\ \E i \in HookCalls(last) : last.trace[i].name = "move_tenant"

\* C6: the document new_doc returns has tenant_id equal to the current tenant
\* for every doctype and keyword fields; the before_validate hooks have run on
\* it and nothing was inserted
C6_NewDocInjectsTenant ==
    (last.op = "new_doc" /\ last.raised = "") =>
        /\ last.doc.tenant_id = last.tenant
        /\ \A i \in OrmCalls(last) : last.trace[i].fn = "frappe.get_doc"

GuardedOps == ReadOps \cup {"sql", "new_doc", "insert_doc"}

\* C7: with no tenant in context (the getter returns None or ''), get_all,
\* get_list, count, exists, get_value, sql, new_doc and insert_doc raise
\* ValueError and have neither called the ORM nor run a custom hook
C7_NoTenantNoQuery ==
    (last.op \in GuardedOps /\ last.tenant \in NoTenant) =>
        last.raised = "ValueError" /\ last.trace = <<>>

\* insert_doc was refused for an empty tenant id while a hook was registered
C7_Witness ==
    /\ last.op = "insert_doc"
    /\ last.tenant = ""
    /\ last.raised = "ValueError"
    /\ last.args.run_hooks /\ HookCount(hooks) > 0

----------------------------------------------------------------------------
(* Claims about the requests of a worker *)

\* the request has run its view function
Done == req.pc = "done"

SecureDone == Done /\ req.route.kind = "secure"

\* the request's handler called tenant_db.get_doc on a saved document
GotDoc == SecureDone /\ req.invoked /\ last.op = "get_doc" /\ last.raised # "DoesNotExistError"

C8_HandlerOnlyWhenValidated ==
    SecureDone =>
        /\ req.invoked => req.validated # NoneVal
        /\ req.validated = NoneVal =>
            /\ resp.status = "401"
            /\ resp.code = "401"
            /\ ~req.invoked
            /\ ~req.resolved
            /\ ~HasKey(req.g, "tenant_id")
            /\ last = Idle

\* the Central Site rejected the session of a request for a document
C8_Witness ==
    /\ SecureDone
    /\ req.route.handler = "get_doc"
    /\ req.central
    /\ req.validated = NoneVal
    /\ resp.status = "401"

\* the request carries a session id and the Central Site vouches for a user
SessionVouched ==
    /\ req.sid \notin {NoneVal, "", "Guest"}
    /\ req.answer.kind = "status"
    /\ req.answer.code = "200"
    /\ req.answer.message \notin {NoneVal, "", "Guest"}

\* C9: _validate_session returns a username only when the sid cookie is present
\* and not 'Guest' and the Central Site answered 200 with a non-empty message
\* other than 'Guest', and the username is that message; in every other case it
\* returns None with a 401 response, and with a missing or 'Guest' sid the
\* Central Site is not called.
C9_ValidateSession ==
    SecureDone =>
        /\ req.validated # NoneVal <=> SessionVouched
        /\ req.validated # NoneVal => req.validated = req.answer.message
        /\ req.validated = NoneVal => resp.status = "401" /\ resp.type = "Unauthorized"
        /\ req.sid \in {NoneVal, "", "Guest"} => ~req.central

\* the Central Site answered 200 with the message 'Guest' for a session id
C9_Witness ==
    /\ SecureDone
    /\ req.sid = "sid-1"
    /\ req.central
    /\ req.answer.code = "200"
    /\ req.answer.message = "Guest"
    /\ req.validated = NoneVal
    /\ resp.status = "401"

\* C10: the session is request-scoped: a request that does not pass the
\* validation of the session (no sid, sid 'Guest', a session the Central Site
\* rejects, a plain route) neither runs nor ends with frappe.session.user equal
\* to a user an earlier request authenticated; its session user is 'Guest' and
\* its sid is None.
C10_SessionRequestScoped ==
    Done /\ req.validated = NoneVal =>
        /\ worker.user \notin served
        /\ req.invoked => req.ran_as \notin served
        /\ worker.user = "Guest"
        /\ worker.sid = NoneVal

----------------------------------------------------------------------------
(* Claims about the error responses of secure_route *)

\* the handler of a secure route raised an exception
HandlerRaised == SecureDone /\ req.invoked /\ req.raised # ""

\* the HTTP status the except clauses give each exception
StatusOf(exc) ==
    IF exc \in {"PermissionError", "AuthenticationError"} THEN "403"
    ELSE IF exc \in {"DoesNotExistError", "LinkValidationError"} THEN "404"
    ELSE IF exc \in {"ValidationError", "ValueError", "TypeError", "KeyError"} THEN "400"
    ELSE "500"

\* C11: an exception raised by a secure_route handler always becomes a JSON
\* error response whose HTTP status equals its code field: 403 for
\* PermissionError and AuthenticationError, 404 for DoesNotExistError and
\* LinkValidationError, 400 for ValidationError, ValueError, TypeError and
\* KeyError, 500 for any other; for 403 and 404 the message is the text of the
\* exception; no exception escapes the wrapper.
C11_ExceptionsBecomeResponses ==
    HandlerRaised =>
        /\ req.escaped = ""
        /\ resp.status = StatusOf(req.raised)
        /\ resp.code = resp.status
        /\ resp.status \in {"403", "404"} => resp.message = Message("", req.text)

----------------------------------------------------------------------------
(* Claims about the hooks *)

\* a step of a call that a hook order speaks of: a custom hook, or the ORM call
\* that writes
LifeStep(ev) == IF ev.kind = "hook" THEN <<ev.fn, ev.name>> ELSE <<ev.fn, "">>

\* the hook steps and the ORM calls named in `orm` of a call, in order
LifeSteps(c, orm) ==
    LET sel == SelectSeq(c.trace, LAMBDA ev : ev.kind = "hook" \/ ev.fn \in orm)
    IN [i \in DOMAIN sel |-> LifeStep(sel[i])]

\* the handlers registered for the event under '*' or under the doctype, each
\* as a step
HookSteps(doctype, event) ==
    LET of(dt) == IF dt \in DOMAIN hooks /\ event \in DOMAIN hooks[dt]
                  THEN hooks[dt][event] ELSE <<>>
        hs == of("*") \o of(doctype)
    IN [i \in DOMAIN hs |-> <<event, hs[i]>>]

\* the call returned, with hooks asked for
RanWithHooks(op) == last.op = op /\ last.args.run_hooks /\ last.raised = ""

\* C12: insert_doc with run_hooks=True runs the custom hooks of before_validate,
\* then those of validate, then those of before_insert, then the database
\* insert, then those of after_insert; each hook registered for one of the four
\* events on the doctype runs exactly once in the call.
C12_InsertHookOrder ==
    RanWithHooks("insert_doc") =>
        LifeSteps(last, {"doc.insert"}) =
            HookSteps(last.args.doctype, "before_validate")
            \o HookSteps(last.args.doctype, "validate")
            \o HookSteps(last.args.doctype, "before_insert")
            \o << <<"doc.insert", "">> >>
            \o HookSteps(last.args.doctype, "after_insert")

\* C13: update_doc with run_hooks=True verifies the tenant of the fetched
\* document, then runs the custom hooks of before_update, validate and
\* before_save, then the database update, then the custom hooks of after_save
\* and after_update; each registered hook of these events runs once in the call.
C13_UpdateHookOrder ==
    RanWithHooks("update_doc") =>
        LifeSteps(last, {"frappe.get_doc", "doc.save"}) =
            << <<"frappe.get_doc", "">> >>
            \o HookSteps(last.args.doctype, "before_update")
            \o HookSteps(last.args.doctype, "validate")
            \o HookSteps(last.args.doctype, "before_save")
            \o << <<"doc.save", "">> >>
            \o HookSteps(last.args.doctype, "after_save")
            \o HookSteps(last.args.doctype, "after_update")

\* the positions of the steps of one kind among the steps of a delete_doc call
DeleteSteps == LifeSteps(last, {"frappe.delete_doc"})

StepsOf(fn) == {i \in DOMAIN DeleteSteps : DeleteSteps[i][1] = fn}

\* a before_delete hook of the call raised: fail_hook always does
BeforeDeleteRaised == \E i \in StepsOf("before_delete") : DeleteSteps[i][2] = "fail_hook"

\* C14: delete_doc with run_hooks=True runs the custom before_delete hooks
\* before the ORM delete and the custom after_delete hooks after it; when a
\* before_delete hook raises, the document is not deleted and no after_delete
\* hook runs; when the ORM delete raises, no after_delete hook runs.
C14_DeleteHookOrder ==
    last.op = "delete_doc" /\ last.args.run_hooks =>
        /\ \A i \in StepsOf("before_delete"), j \in StepsOf("frappe.delete_doc") : i < j
        /\ \A i \in StepsOf("after_delete") :
                \E j \in StepsOf("frappe.delete_doc") : j < i
        /\ last.raised = "" =>
                DeleteSteps = HookSteps(last.args.doctype, "before_delete")
                              \o << <<"frappe.delete_doc", "">> >>
                              \o HookSteps(last.args.doctype, "after_delete")
        /\ BeforeDeleteRaised =>
                /\ last.raised = "ValidationError"
                /\ StepsOf("frappe.delete_doc") = {}
                /\ StepsOf("after_delete") = {}
                /\ Saved(db, last.args.doctype, last.args.name)
        /\ last.raised = "LinkExistsError" =>
                /\ StepsOf("after_delete") = {}
                /\ Saved(db, last.args.doctype, last.args.name)

\* a before_delete hook stopped a delete for which an after_delete hook was
\* registered
C14_Witness ==
    /\ last.op = "delete_doc"
    /\ last.args.run_hooks
    /\ BeforeDeleteRaised
    /\ HookSteps(last.args.doctype, "after_delete") # <<>>
    /\ Saved(db, last.args.doctype, last.args.name)

\* the handlers the registry h holds under a key and an event
RawOf(h, key, event) ==
    IF key \in DOMAIN h /\ event \in DOMAIN h[key] THEN h[key][event] ELSE <<>>

HookKeys == DocTypes \cup {"*"}

\* a registration puts the handler at the end of the list of its key and event
\* and leaves every other list as it was
RegistrationAppends ==
    hooks' # hooks =>
        \E c \in HookMenu :
            \A k \in HookKeys, e \in Events :
                RawOf(hooks', k, e) = IF k = c[1] /\ e = c[2]
                                      THEN Append(RawOf(hooks, k, e), c[3])
                                      ELSE RawOf(hooks, k, e)

\* the handlers of the hook steps of a call, in order
Invoked(c) ==
    LET sel == SelectSeq(c.trace, LAMBDA ev : ev.kind = "hook")
    IN [i \in DOMAIN sel |-> sel[i].name]

IsPrefix(a, b) == Len(a) <= Len(b) /\ a = SubSeq(b, 1, Len(a))

\* what the registry says get_hooks and run_hooks owe the caller
InRegistryOrder(c, h) ==
    LET owed == RawOf(h, "*", c.args.event) \o RawOf(h, c.args.doctype, c.args.event)
    IN /\ c.op = "get_hooks" => c.result = owed
       /\ c.op = "run_hooks" =>
            /\ IsPrefix(Invoked(c), owed)
            /\ c.raised = "" => Invoked(c) = owed

\* C15: for every doctype and event get_hooks returns the hooks registered under
\* '*', in registration order, then those registered for the doctype, in
\* registration order, and nothing else; run_hooks invokes them in that order.
C15_GetHooksOrder ==
    [][/\ RegistrationAppends
       /\ last'.op \in {"get_hooks", "run_hooks"} => InRegistryOrder(last', hooks')]_vars

\* get_hooks returned a global hook and a hook of the doctype for one event
C15_Witness ==
    /\ last.op = "get_hooks"
    /\ RawOf(hooks, "*", last.args.event) # <<>>
    /\ RawOf(hooks, last.args.doctype, last.args.event) # <<>>
    /\ Len(last.result) = 2

\* the hooks a run_hooks call has to deal with, and the first of them that fails
Owed(c) == RawOf(hooks, "*", c.args.event) \o RawOf(hooks, c.args.doctype, c.args.event)

Failing(c) == {i \in DOMAIN Owed(c) : Owed(c)[i] = "fail_hook"}

FirstFailing(c) == CHOOSE i \in Failing(c) : \A j \in Failing(c) : i <= j

\* C16: run_hooks with raise_on_error=True propagates the exception of the first
\* failing hook and invokes no hook after it; with raise_on_error=False it
\* invokes every hook of the event, also after a failure, and never raises.
C16_RaiseOnError ==
    last.op = "run_hooks" =>
        IF last.args.raise_on_error /\ Failing(last) # {}
        THEN /\ last.raised = "ValidationError"
             /\ Invoked(last) = SubSeq(Owed(last), 1, FirstFailing(last))
        ELSE /\ last.raised = ""
             /\ Invoked(last) = Owed(last)

\* with raise_on_error=False a hook ran after a hook that failed
C16_Witness ==
    /\ last.op = "run_hooks"
    /\ ~last.args.raise_on_error
    /\ Invoked(last) = <<"fail_hook", "log_hook">>
    /\ last.raised = ""

----------------------------------------------------------------------------
(* Claims about register_resource *)

\* the resource serves the method on the path
Serves(method, path) ==
    /\ \E r \in ResourceRoutes : r.method = method /\ r.path = path
    /\ ~resource.methods.given \/ method \in resource.methods.items

\* C17: custom_handlers maps methods to handler overrides: when it maps an HTTP
\* method name such as 'POST' to a handler, that handler, not the built-in one,
\* serves the requests of that method on the resource.
C17_CustomHandlerServes ==
    (/\ last.op = "resource_request"
     /\ Serves(last.args.method, last.args.path)
     /\ resource.custom_handlers.given
     /\ HasKey(resource.custom_handlers.d, last.args.method))
        => last.handler = resource.custom_handlers.d[last.args.method]

----------------------------------------------------------------------------
(* Claims about get_user_tenant_id *)

SystemUsers == {NoneVal, "", "Guest", "Administrator"}

\* C18 as stated: get_user_tenant_id returns None for an empty user, 'Guest' and
\* 'Administrator' without querying the database, and never returns 'SYSTEM'.
C18_AsStated ==
    last.op = "get_user_tenant_id" =>
        /\ last.args.user_email \in SystemUsers =>
                last.result = NoneVal /\ last.trace = <<>>
        /\ last.result # "SYSTEM"

\* C18: an empty user_email stands for frappe.session.user ('Guest' when there
\* is no session); get_user_tenant_id returns None without querying the database
\* when the user so resolved is empty, 'Guest' or 'Administrator', queries the
\* database for any other user, and never returns 'SYSTEM', neither on the SQL
\* path nor on the fallback path.
C18_ResolvedUserTenant ==
    last.op = "get_user_tenant_id" =>
        LET user == IF last.args.user_email \notin {NoneVal, ""} THEN last.args.user_email
                    ELSE IF last.args.session_user = "<no session>" THEN "Guest"
                    ELSE last.args.session_user
        IN /\ user \in SystemUsers => last.result = NoneVal /\ last.trace = <<>>
           /\ user \notin SystemUsers => last.trace # <<>>
           /\ last.result # "SYSTEM"
           /\ last.result # NoneVal =>
                user \in Users /\ last.result = UserTable[user].tenant_id

\* a user whose tenant is SYSTEM was looked up on the fallback path
C18_Witness ==
    /\ last.op = "get_user_tenant_id"
    /\ last.args.user_email = "operator"
    /\ last.args.query = "sql_fails"
    /\ Len(last.trace) = 2
    /\ last.result = NoneVal

----------------------------------------------------------------------------
(* Claims about the arguments of the caller *)

FilterOps == {"get_all", "get_list", "count", "exists", "get_value"}

\* C19: TenantAwareDB does not modify the objects of its caller: the filters
\* dict or list of get_all, get_list, count, exists and get_value, the data dict
\* of insert_doc and the data dict of update_doc, also with a tenant_id key,
\* are after the call what they were before it.
C19_CallerObjectsUnchanged ==
    /\ last.op \in FilterOps => last.after = last.args.filters
    /\ last.op \in {"insert_doc", "update_doc"} => last.after = last.args.data

\* update_doc went through with a data dict that carried a tenant_id key
C19_Witness ==
    /\ last.op = "update_doc"
    /\ last.raised = ""
    /\ HasKey(last.args.data, "tenant_id")
    /\ last.after = last.args.data

----------------------------------------------------------------------------
(* Claims about DocumentController *)

\* the names __setattr__ keeps on the controller alone
OwnOnly == PrivateNames \cup {"doc"}

\* the names a read of the controller does not pass on to the document
NotForwarded == PrivateNames \cup {"doc", "flags"} \cup ClassAttrs

\* after controller.key = value: the document the statement started with and
\* the controller both read value
Synced == /\ DocRead(last.before, last.args.key) = last.args.value
          /\ controller_getattr(controller, last.args.key) = last.args.value

\* a read of the controller gave what the document holds
ReadsDocument == last.result = DocRead(controller.doc, last.args.key)

\* C20 as stated: after controller.field = v for any name without a leading
\* underscore both doc.field and controller.field read v, and a name never set
\* on the controller reads the current value of the document.
C20_AsStated ==
    /\ (last.op = "setattr" /\ last.args.key \notin PrivateNames) => Synced
    /\ (last.op = "getattr" /\ last.never_set /\ last.args.key \notin PrivateNames)
            => ReadsDocument

\* C20: after controller.field = v for any name without a leading underscore
\* other than 'doc', both doc.field and controller.field read v; a name never
\* set on the controller reads the current value of the document unless it has
\* a leading underscore, is 'doc' or 'flags', or is defined by the controller
\* class.
C20_FieldsInSync ==
    /\ (last.op = "setattr" /\ last.args.key \notin OwnOnly) => Synced
    /\ (last.op = "getattr" /\ last.never_set /\ last.args.key \notin NotForwarded)
            => ReadsDocument

\* a field was assigned through the controller, and later a field that was
\* never assigned through it was read after the document itself had changed
C20_Witness ==
    /\ last.op = "getattr"
    /\ last.args.key = "customer"
    /\ last.never_set
    /\ last.result = "CUST-003"
    /\ controller.own["flags"] = "CUST-002"
    /\ controller.doc["flags"] = "CUST-002"

----------------------------------------------------------------------------
(* Claims about requests served at the same time *)

\* the tenant the User table gives a user, 'SYSTEM' counting as none
TenantOf(user) ==
    IF user \in Users /\ UserTable[user].tenant_id # "SYSTEM" /\ user # "Administrator"
    THEN UserTable[user].tenant_id ELSE NoneVal

\* the handler of thread t has been invoked for a validated user
HandlerRan(t) == threads[t].req.pc = "done" /\ threads[t].req.invoked

\* C21: with no custom tenant getter and requests of different users served at
\* the same time, the tenant tenant_db uses in a secure_route handler is the
\* tenant of the user validated in the same request (none when that user has no
\* tenant or the lookup failed), and the handler is invoked with
\* frappe.session.user equal to the validated username.
C21_TenantOfOwnRequest ==
    \A t \in Threads :
        HandlerRan(t) =>
            /\ threads[t].req.ran_as = threads[t].req.username
            /\ threads[t].req.tenant \in {TenantOf(threads[t].req.username), NoneVal}
            /\ threads[t].req.query # "both_fail"
                    => threads[t].req.tenant = TenantOf(threads[t].req.username)

\* bob's handler ran with tenant_b in a thread that served alice before, while
\* the other thread is in alice's handler
C21_Witness ==
    /\ HandlerRan("t1")
    /\ threads["t1"].req.username = "bob"
    /\ threads["t1"].req.tenant = "tenant_b"
    /\ threads["t1"].g["tenant_id"] = "tenant_b"
    /\ threads["t2"].req.pc = "handler"
    /\ threads["t2"].req.username = "alice"
    /\ threads["t2"].g["tenant_id"] = "tenant_a"
    /\ threads["t2"].local.user = "alice"

============================================================================
